---- MODULE Spec2Model ----
(***************************************************************************)
(* Model of the parameter-discovery Runner (src/src/runner/runner.rs):     *)
(* construction (Runner::new), the stability check with the adaptive       *)
(* batch sizer (stability_checker, try_to_increase_max), the discovery     *)
(* pass, the non-random sweep (check_non_random_parameters) and the        *)
(* post-processing done by run (dedup filter, verification, replay).       *)
(*                                                                         *)
(* A string is the sequence of its characters' code points, so that        *)
(* concatenation ([k, "=", v].concat()) and splitting (split('=')) are     *)
(* computed, not assumed.  A HashMap is the sequence of its entries in     *)
(* the (unspecified but fixed) order its iterator yields them.             *)
(***************************************************************************)
EXTENDS Integers, Sequences, FiniteSets, TLC

\* ------------------------------------------------------------------ bounds
\* longest list of names the initial probe's inference returns
MaxInferred == 2
\* longest value list of one custom parameter
MaxValues == 2
\* sweep rounds after which the model stops following the sweep loop
MaxRounds == 3

\* --------------------------------------------------- program constants
\* '=' (runner.rs:125 and :162)
ChEq == 61
\* the sentinel magnitude of "auto" sizing (runner.rs:194)
Sentinel == 128
\* first and second rung of the sizing ladder (runner.rs:208, :222/:233/:235)
Rung1 == 64
Rung2 == 128

\* ------------------------------------------------------------- strings
Str_d == <<100>>
Str_a == <<97>>
Str_1 == <<49>>
Str_t == <<116>>
Str_y == <<121>>
Str_eq == <<ChEq>>

\* isize::abs (runner.rs:34, :103, :197)
Abs(i) == IF i < 0 THEN -i ELSE i

\* Vec::contains (runner.rs:54)
Contains(s, x) == \E i \in 1..Len(s) : s[i] = x

\* str::contains('=') (runner.rs:125)
ContainsEq(name) == \E i \in 1..Len(name) : name[i] = ChEq

\* name.split('=').next().unwrap(): the text before the first '=' (runner.rs:125)
Min(S) == CHOOSE x \in S : \A y \in S : x <= y
SplitFirst(name) ==
    IF ContainsEq(name)
    THEN SubSeq(name, 1, Min({i \in 1..Len(name) : name[i] = ChEq}) - 1)
    ELSE name

\* [k.as_str(), "=", v].concat() (runner.rs:162)
Concat(k, v) == k \o Str_eq \o v

\* all sequences over S of length at most n
RECURSIVE SeqsUpTo(_, _)
SeqsUpTo(S, n) ==
    IF n = 0 THEN {<<>>}
    ELSE LET shorter == SeqsUpTo(S, n - 1)
         IN  shorter \cup {Append(s, x) : s \in {t \in shorter : Len(t) = n - 1}, x \in S}

\* ---------------------------------------------------------------- inputs
\* a word list of n distinct names without '='
BaseParams(n) == [i \in 1..n |-> <<1000 + i>>]
\* a short word list whose names are keys and "key=value" strings
SmallParams == <<Str_d, Concat(Str_d, Str_1), Concat(Str_a, Str_1), Concat(Str_d, Str_eq)>>
\* the same kind of list with the keys after their "key=value" strings
SmallParamsKeysLast == <<Concat(Str_d, Str_1), Concat(Str_a, Str_t), Str_a, Str_d>>
\* lengths of the word lists tried: empty, short, at the sentinel, above it
ParamLens == {0, 2, 128, 200}
ParamLists == {BaseParams(n) : n \in ParamLens} \cup {SmallParams}
\* requested default_max values: auto (negative) and fixed (positive)
DefaultMaxValues == {-Sentinel, -2, 0, 2, Sentinel}
Places == {"Headers", "Body"}
\* names the initial probe's inference may return: one new, one of BaseParams
InferredNames == {Str_d, <<1001>>}

CustomKeys == {Str_d, Str_a}
CustomValues == {Str_1, Str_t}
ValueLists == SeqsUpTo(CustomValues, MaxValues)
\* HashMap<String, Vec<String>> as its entries in iteration order, keys distinct
CustomMaps ==
    {<<>>}
    \cup {<<[k |-> k1, v |-> v1]>> : k1 \in CustomKeys, v1 \in ValueLists}
    \cup {<<[k |-> ks[1], v |-> v1], [k |-> ks[2], v |-> v2]>> :
            ks \in {p \in CustomKeys \X CustomKeys : p[1] # p[2]},
            v1 \in ValueLists, v2 \in ValueLists}
BaseCustom == <<[k |-> Str_d, v |-> <<Str_1>>]>>

MkConfig(ro, dis, ver, rp, cp) ==
    [reflected_only |-> ro, disable_custom_parameters |-> dis, verify |-> ver,
     replay_proxy |-> rp, custom_parameters |-> cp]
\* how the target behaves during one run: the names it reacts to, the names
\* its baseline body suggests, and the noise empty_reqs learns from it
MkTarget(hid, names, d, st) ==
    [hidden |-> hid, body_names |-> names, diffs |-> d, stable |-> st]
MkInput(dm, ps, pl, cfg, tgt) ==
    [default_max |-> dm, params |-> ps, place |-> pl, config |-> cfg, target |-> tgt]

DiffMarker == <<120>>
\* what empty_reqs can learn: the persistent diffs and the stability flags
LearnedDiffs == {<<>>, <<DiffMarker>>}
StableValues == [body : BOOLEAN, reflections : BOOLEAN]
AllStable == [body |-> TRUE, reflections |-> TRUE]
QuietTarget(hid) == MkTarget(hid, <<>>, <<>>, AllStable)

\* construction and sizing: every request, word list, injection place and noise
ConstructionInputs ==
    {MkInput(dm, ps, pl, MkConfig(ro, TRUE, TRUE, Str_a, BaseCustom),
             MkTarget({}, names, d, st)) :
        dm \in DefaultMaxValues, ps \in ParamLists, pl \in Places, ro \in BOOLEAN,
        names \in SeqsUpTo(InferredNames, MaxInferred), d \in LearnedDiffs,
        st \in StableValues}
\* the sweep: every custom-parameter map
SweepInputs ==
    {MkInput(2, SmallParams, "Body", MkConfig(FALSE, dis, FALSE, <<>>, cp), QuietTarget(hid)) :
        dis \in BOOLEAN, cp \in CustomMaps, hid \in {{}, {Concat(Str_d, Str_1)}}}
\* post-processing: every set of names the target reacts to
HiddenNames ==
    {Str_d, Str_a, Concat(Str_d, Str_1), Concat(Str_a, Str_1), Concat(Str_a, Str_t),
     Concat(Str_d, Str_eq)}
PostInputs ==
    {MkInput(2, ps, "Body", MkConfig(FALSE, dis, ver, rp, cp), QuietTarget(hid)) :
        ps \in {SmallParams, SmallParamsKeysLast},
        dis \in BOOLEAN, ver \in BOOLEAN, rp \in {<<>>, Str_a}, hid \in SUBSET HiddenNames,
        cp \in {<<>>, BaseCustom}}
Inputs == ConstructionInputs \cup SweepInputs \cup PostInputs

\* --------------------------------------------------------------- state
VARIABLES
    pc,                \* position in new / run
    config,            \* Config (read-only)
    injection_place,   \* request_defaults.injection_place
    params,            \* the caller's parameter list (new mutates it in place)
    requested_max,     \* the default_max the caller passed to new
    original_params,   \* the caller's parameter list as passed to new
    target,            \* how the target behaves during this run
    default_max,       \* new's argument, then Runner.default_max
    max,               \* Runner.max
    self_params,       \* Runner.params
    stable,            \* Runner.stable
    diffs,             \* Runner.diffs
    initial_response,  \* Runner.initial_response
    probe_response,    \* what the initial probe returned
    is_the_body_the_same, \* local of try_to_increase_max
    compared,          \* what each sizing probe's compare returned, in order
    custom_parameters, \* local of check_non_random_parameters
    sweep_params,      \* local `params` of check_non_random_parameters
    found_parameters,  \* local of check_non_random_parameters
    found_params,      \* local of run
    found_before_dedup,\* found_params as it was before the dedup filter
    error,             \* the Err a failed stage returned, "" if none
    log                \* every collaborator call made so far, in order

vars == <<pc, config, injection_place, params, requested_max, original_params, target, default_max, max,
          self_params, stable, diffs, initial_response, probe_response,
          is_the_body_the_same, compared, custom_parameters, sweep_params,
          found_parameters, found_params, found_before_dedup, error, log>>

\* one entry of the call log: the collaborator called, the number of parameters
\* it carried, the batch it was given and whether it returned Ok
Call(op, size, batch, ok) == [op |-> op, size |-> size, batch |-> batch, ok |-> ok]

\* Response before any probe was made
NoResponse ==
    [time |-> 0, code |-> 0, headers |-> <<>>, text |-> <<>>,
     reflected_parameters |-> <<>>, additional_parameter |-> <<>>, request |-> "None"]
\* Stable::default()
DefaultStable == [body |-> FALSE, reflections |-> FALSE]

Init ==
    \E inp \in Inputs :
        /\ pc = "new"
        /\ config = inp.config
        /\ injection_place = inp.place
        /\ params = inp.params
        /\ requested_max = inp.default_max
        /\ original_params = inp.params
        /\ target = inp.target
        /\ default_max = inp.default_max
        /\ max = 0
        /\ self_params = <<>>
        /\ stable = DefaultStable
        /\ diffs = <<>>
        /\ initial_response = NoResponse
        /\ probe_response = NoResponse
        /\ is_the_body_the_same = TRUE
        /\ compared = <<>>
        /\ custom_parameters = <<>>
        /\ sweep_params = <<>>
        /\ found_parameters = <<>>
        /\ found_params = <<>>
        /\ found_before_dedup = <<>>
        /\ error = ""
        /\ log = <<>>

\* ------------------------------------------------------- Runner::new
\* what Request::send returns for the initial probe
ProbeResponse ==
    [time |-> 1, code |-> 200, headers |-> <<Str_a>>, text |-> target.body_names,
     reflected_parameters |-> <<Str_t>>, additional_parameter |-> <<Str_y>>,
     request |-> "Some"]

\* Response::get_possible_parameters: the names inferred from the body
get_possible_parameters(response) == response.text

\* variant of MergePossible: every inferred name is pushed, present or not
RECURSIVE MergePossibleNoCheck(_, _)
MergePossibleNoCheck(ps, possible) ==
    IF possible = <<>> THEN ps
    ELSE MergePossibleNoCheck(Append(ps, Head(possible)), Tail(possible))

\* the merge loop (runner.rs:53-57)
RECURSIVE MergePossible(_, _)
MergePossible(ps, possible) ==
    IF possible = <<>> THEN ps
    ELSE MergePossible(IF ~Contains(ps, Head(possible)) THEN Append(ps, Head(possible)) ELSE ps,
                       Tail(possible))

\* runner.rs:52-58
MergedParams(ps, possible, place) ==
    IF place # "Headers" THEN MergePossible(ps, possible) ELSE ps

\* `params.len() < max` with max = default_max.abs() (runner.rs:34, :61)
ListTooSmall(n, dm) == n < Abs(dm)

\* variants of AdjustedDefaultMax: the shrink keeps the sign of the request;
\* the shrink is left out
AdjustedDefaultMaxKeepsSign(n, dm) ==
    IF ListTooSmall(n, dm) THEN (IF dm < 0 THEN -n ELSE n) ELSE dm
AdjustedDefaultMaxNoShrink(n, dm) == dm

\* default_max after the adjustment (runner.rs:61-63)
AdjustedDefaultMax(n, dm) == IF ListTooSmall(n, dm) THEN n ELSE dm

\* the local max after the adjustment (runner.rs:34, :61-62)
AdjustedMax(n, dm) == IF ListTooSmall(n, dm) THEN n ELSE Abs(dm)

\* the "No parameters were provided." error (runner.rs:61-66)
NoParametersProvided(n, dm) == ListTooSmall(n, dm) /\ AdjustedMax(n, dm) = 0

\* variant of Baseline: the link to the request is carried over
BaselineKeepsRequest(response) ==
    [time |-> response.time, code |-> response.code, headers |-> response.headers,
     text |-> response.text, reflected_parameters |-> response.reflected_parameters,
     additional_parameter |-> response.additional_parameter, request |-> response.request]

\* the durable baseline (runner.rs:80-88)
Baseline(response) ==
    [time |-> response.time, code |-> response.code, headers |-> response.headers,
     text |-> response.text, reflected_parameters |-> response.reflected_parameters,
     additional_parameter |-> response.additional_parameter, request |-> "None"]

\* Runner::new, the initial probe failing (runner.rs:47-49)
NewProbeFails ==
    /\ pc = "new"
    /\ pc' = "no_runner"
    /\ error' = "transport"
    /\ log' = Append(log, Call("probe", 1, <<>>, FALSE))
    /\ UNCHANGED <<config, injection_place, params, requested_max, original_params, target, default_max, max,
                   self_params, stable, diffs, initial_response, probe_response,
                   is_the_body_the_same, compared, custom_parameters, sweep_params,
                   found_parameters, found_params, found_before_dedup>>

\* Runner::new, the initial probe answered (runner.rs:26-110)
New ==
    /\ pc = "new"
    /\ LET response == ProbeResponse
            merged == MergedParams(params, get_possible_parameters(response), injection_place)
            n == Len(merged)
       IN   /\ probe_response' = response
            /\ params' = merged
            /\ log' = Append(log, Call("probe", 1, <<>>, TRUE))
            /\ default_max' = AdjustedDefaultMax(n, default_max)
            /\ IF NoParametersProvided(n, default_max)
               THEN /\ pc' = "no_runner"
                    /\ error' = "No parameters were provided."
                    /\ UNCHANGED <<max, self_params, initial_response>>
               ELSE /\ pc' = "constructed"
                    /\ error' = ""
                    /\ max' = Abs(AdjustedDefaultMax(n, default_max))
                    /\ self_params' = merged
                    /\ initial_response' = Baseline(response)
    /\ UNCHANGED <<config, injection_place, requested_max, original_params, target, stable, diffs,
                   is_the_body_the_same, compared, custom_parameters, sweep_params,
                   found_parameters, found_params, found_before_dedup>>

\* ------------------------------------------------- stability_checker
\* what compare can return as new diffs
NewDiffs == {<<>>, <<DiffMarker>>}

\* variant of ReflectionsGate: the wrong stability flag is read
ReflectionsGateWrongFlag(reflected_only, st) == reflected_only /\ ~st.body

\* runner.rs:189
ReflectionsGate(reflected_only, st) == reflected_only /\ ~st.reflections

\* variant of SizingRequested: any negative default_max asks for sizing
SizingRequestedAnyNegative(dm) == dm < 0

\* runner.rs:194
SizingRequested(dm) == dm = -Sentinel

\* variant of PropagatedDefaultMax: the new max is not stored
PropagatedDefaultMaxNever(m, dm) == dm

\* runner.rs:197-199
PropagatedDefaultMax(m, dm) == IF m # Abs(dm) THEN m ELSE dm

\* stability_checker, empty_reqs failing (runner.rs:181-187)
EmptyReqsFails ==
    /\ pc = "constructed"
    /\ pc' = "error"
    /\ error' = "transport"
    /\ log' = Append(log, Call("empty_reqs", max, <<>>, FALSE))
    /\ UNCHANGED <<config, injection_place, params, requested_max, original_params, target, default_max, max,
                   self_params, stable, diffs, initial_response, probe_response,
                   is_the_body_the_same, compared, custom_parameters, sweep_params,
                   found_parameters, found_params, found_before_dedup>>

\* stability_checker up to its first sizing probe (runner.rs:179-195)
StabilityChecker ==
    /\ pc = "constructed"
    /\ LET d == target.diffs
           st == target.stable
       IN
        /\ diffs' = d
        /\ stable' = st
        /\ log' = Append(log, Call("empty_reqs", max, <<>>, TRUE))
        /\ IF ReflectionsGate(config.reflected_only, st)
           THEN pc' = "error" /\ error' = "Reflections are not stable"
           ELSE /\ error' = ""
                /\ pc' = IF SizingRequested(default_max)
                         THEN "try_to_increase_max" ELSE "check_parameters"
    /\ UNCHANGED <<config, injection_place, params, requested_max, original_params, target, default_max, max,
                   self_params, initial_response, probe_response,
                   is_the_body_the_same, compared, custom_parameters, sweep_params,
                   found_parameters, found_params, found_before_dedup>>

\* ----------------------------------------------- try_to_increase_max
\* `if !new_diffs.is_empty() { is_the_body_the_same = false }` (runner.rs:215-217, :228-230)
BodySame(same, new_diffs) == IF new_diffs # <<>> THEN FALSE ELSE same

\* the rung condition (runner.rs:220, :232)
RungSafe(is_code_different, stable_body, same) ==
    ~is_code_different /\ (~stable_body \/ same)

\* variant of CommitMax: the second rung is committed whatever it showed
CommitMaxAlwaysRung2(m, safe) == m + Rung2

\* the number of random parameters of the first probe (runner.rs:208)
ProbeSize1(m) == m + Rung1

\* variant of ProbeSize2: the second probe is sized on top of the first
ProbeSize2OnTopOfFirst(m) == m + Rung1 + Rung2

\* the number of random parameters of the second probe (runner.rs:222)
ProbeSize2(m) == m + Rung2

\* variant of CommitMax: the two branches are swapped
CommitMaxSwapped(m, safe) == IF safe THEN m + Rung1 ELSE m + Rung2

\* the commit (runner.rs:232-236)
CommitMax(m, safe) == IF safe THEN m + Rung2 ELSE m + Rung1

\* a sizing probe whose send or compare fails (runner.rs:208-212, :222-226);
\* a failed compare follows a probe that was sent
SizerProbeFails ==
    /\ pc \in {"try_to_increase_max", "try_to_increase_max_2"}
    /\ \E sent \in BOOLEAN :
        /\ log' = Append(log, Call("sizer", IF pc = "try_to_increase_max"
                                              THEN ProbeSize1(max) ELSE ProbeSize2(max),
                                     <<>>, sent))
        /\ error' = IF sent THEN "compare" ELSE "transport"
    /\ pc' = "error"
    /\ UNCHANGED <<config, injection_place, params, requested_max, original_params, target, default_max, max,
                   self_params, stable, diffs, initial_response, probe_response,
                   is_the_body_the_same, compared, custom_parameters, sweep_params,
                   found_parameters, found_params, found_before_dedup>>

\* variant of TryToIncreaseMax1: the first rung is committed as soon as it is
\* found safe
TryToIncreaseMax1CommitsEarly ==
    /\ pc = "try_to_increase_max"
    /\ \E is_code_different \in BOOLEAN, new_diffs \in NewDiffs :
        LET same == BodySame(TRUE, new_diffs)
        IN  /\ log' = Append(log, Call("sizer", ProbeSize1(max), <<>>, TRUE))
            /\ compared' = Append(compared, [is_code_different |-> is_code_different,
                                             new_diffs |-> new_diffs])
            /\ is_the_body_the_same' = same
            /\ IF RungSafe(is_code_different, stable.body, same)
               THEN /\ pc' = "try_to_increase_max_2"
                    /\ max' = max + Rung1
                    /\ default_max' = PropagatedDefaultMax(max + Rung1, default_max)
               ELSE /\ pc' = "check_parameters"
                    /\ max' = max
                    /\ default_max' = PropagatedDefaultMax(max, default_max)
    /\ UNCHANGED <<config, injection_place, params, requested_max, original_params, target,
                   self_params, stable, diffs, initial_response, probe_response,
                   custom_parameters, sweep_params, found_parameters, found_params,
                   found_before_dedup, error>>

\* the first rung (runner.rs:208-220), and the return to stability_checker
\* when it is not safe (runner.rs:240, :197-202)
TryToIncreaseMax1 ==
    /\ pc = "try_to_increase_max"
    /\ \E is_code_different \in BOOLEAN, new_diffs \in NewDiffs :
        LET same == BodySame(TRUE, new_diffs)
        IN  /\ log' = Append(log, Call("sizer", ProbeSize1(max), <<>>, TRUE))
            /\ compared' = Append(compared, [is_code_different |-> is_code_different,
                                             new_diffs |-> new_diffs])
            /\ is_the_body_the_same' = same
            /\ IF RungSafe(is_code_different, stable.body, same)
               THEN pc' = "try_to_increase_max_2" /\ UNCHANGED default_max
               ELSE /\ pc' = "check_parameters"
                    /\ default_max' = PropagatedDefaultMax(max, default_max)
    /\ UNCHANGED <<config, injection_place, params, requested_max, original_params, target, max,
                   self_params, stable, diffs, initial_response, probe_response,
                   custom_parameters, sweep_params, found_parameters, found_params,
                   found_before_dedup, error>>

\* the second rung and the commit (runner.rs:222-240), then the propagation
\* into default_max (runner.rs:197-202)
TryToIncreaseMax2 ==
    /\ pc = "try_to_increase_max_2"
    /\ \E is_code_different \in BOOLEAN, new_diffs \in NewDiffs :
        LET same == BodySame(is_the_body_the_same, new_diffs)
            m == CommitMax(max, RungSafe(is_code_different, stable.body, same))
        IN  /\ log' = Append(log, Call("sizer", ProbeSize2(max), <<>>, TRUE))
            /\ compared' = Append(compared, [is_code_different |-> is_code_different,
                                             new_diffs |-> new_diffs])
            /\ is_the_body_the_same' = same
            /\ max' = m
            /\ default_max' = PropagatedDefaultMax(m, default_max)
    /\ pc' = "check_parameters"
    /\ UNCHANGED <<config, injection_place, params, requested_max, original_params, target,
                   self_params, stable, diffs, initial_response, probe_response,
                   custom_parameters, sweep_params, found_parameters, found_params,
                   found_before_dedup, error>>

\* ------------------------------------------------------- the discovery pass
\* check_parameters: the names of the batch the target reacts to, in batch order
CheckParameters(batch) == SelectSeq(batch, LAMBDA x : x \in target.hidden)

\* variant of DiscoveryFails: the error is swallowed and run goes on with
\* nothing found
DiscoveryFailsSwallowed ==
    /\ pc = "check_parameters"
    /\ pc' = "check_non_random_parameters"
    /\ found_params' = <<>>
    /\ log' = Append(log, Call("check_parameters", Len(params), params, FALSE))
    /\ UNCHANGED <<config, injection_place, params, requested_max, original_params, target,
                   default_max, max, self_params, stable, diffs, initial_response,
                   probe_response, is_the_body_the_same, compared, custom_parameters,
                   sweep_params, found_parameters, found_before_dedup, error>>

\* run's discovery pass failing (runner.rs:117)
DiscoveryFails ==
    /\ pc = "check_parameters"
    /\ pc' = "error"
    /\ error' = "transport"
    /\ log' = Append(log, Call("check_parameters", Len(params), params, FALSE))
    /\ UNCHANGED <<config, injection_place, params, requested_max, original_params, target, default_max, max,
                   self_params, stable, diffs, initial_response, probe_response,
                   is_the_body_the_same, compared, custom_parameters, sweep_params,
                   found_parameters, found_params, found_before_dedup>>

\* variant of Discovery: run calls check_parameters before stability_checker
DiscoveryBeforeStability ==
    /\ pc = "constructed"
    /\ pc' = "check_non_random_parameters"
    /\ found_params' = CheckParameters(params)
    /\ log' = Append(log, Call("check_parameters", Len(params), params, TRUE))
    /\ UNCHANGED <<config, injection_place, params, requested_max, original_params, target,
                   default_max, max, self_params, stable, diffs, initial_response,
                   probe_response, is_the_body_the_same, compared, custom_parameters,
                   sweep_params, found_parameters, found_before_dedup, error>>

\* run's discovery pass (runner.rs:117)
Discovery ==
    /\ pc = "check_parameters"
    /\ pc' = "check_non_random_parameters"
    /\ found_params' = CheckParameters(params)
    /\ log' = Append(log, Call("check_parameters", Len(params), params, TRUE))
    /\ UNCHANGED <<config, injection_place, params, requested_max, original_params, target, default_max, max,
                   self_params, stable, diffs, initial_response, probe_response,
                   is_the_body_the_same, compared, custom_parameters, sweep_params,
                   found_parameters, found_before_dedup, error>>

\* ------------------------------------------ check_non_random_parameters
\* Vec::pop: the last value (runner.rs:162)
PopValue(v) == v[Len(v)]
\* the vector Vec::pop leaves (runner.rs:162)
AfterPop(v) == SubSeq(v, 1, Len(v) - 1)

\* the strings one pass over the map pushes (runner.rs:160-164)
RECURSIVE RoundBatch(_)
RoundBatch(cp) ==
    IF cp = <<>> THEN <<>>
    ELSE (IF Head(cp).v # <<>> THEN <<Concat(Head(cp).k, PopValue(Head(cp).v))>> ELSE <<>>)
         \o RoundBatch(Tail(cp))

\* the map one pass over it leaves (runner.rs:160-164)
AfterRound(cp) ==
    [i \in 1..Len(cp) |->
        [k |-> cp[i].k, v |-> IF cp[i].v # <<>> THEN AfterPop(cp[i].v) ELSE cp[i].v]]

\* `params` when a round's check_parameters is called (runner.rs:155, :160-166)
RoundParams(ps, cp) == ps \o RoundBatch(cp)

\* Parameters::contains_key on the found list: some found parameter has this name
ContainsKey(fp, key) == \E i \in 1..Len(fp) : fp[i] = key

\* variant of Dedup: every "key=value" name is dropped, found key or not
DedupNoKeyCheck(fp) == SelectSeq(fp, LAMBDA x : ~ContainsEq(x))

\* the dedup filter (runner.rs:123-126)
Dedup(fp) ==
    SelectSeq(fp, LAMBDA x : ~(ContainsEq(x) /\ ContainsKey(fp, SplitFirst(x))))

\* variant of AfterVerify: the is_empty test is inverted
AfterVerifyInverted == IF config.replay_proxy = <<>> THEN "replay" ELSE "done"

\* where run continues after the dedup filter (runner.rs:129, :139, :145)
AfterVerify == IF config.replay_proxy # <<>> THEN "replay" ELSE "done"
AfterDedup == IF config.verify THEN "verify" ELSE AfterVerify

\* the sweep's locals on entry (runner.rs:151-155) or as the last round left them
InSweep == pc \in {"check_non_random_parameters", "sweep_loop"}
CurCustom == IF pc = "sweep_loop" THEN custom_parameters ELSE config.custom_parameters
CurParams == IF pc = "sweep_loop" THEN sweep_params ELSE <<>>
CurFound == IF pc = "sweep_loop" THEN found_parameters ELSE <<>>
SweepRounds == Cardinality({i \in 1..Len(log) : log[i].op = "sweep"})

\* the sweep disabled (runner.rs:153, :174), then run's append and dedup
\* filter (runner.rs:119-126)
SweepDisabled ==
    /\ pc = "check_non_random_parameters"
    /\ config.disable_custom_parameters
    /\ found_before_dedup' = found_params
    /\ found_params' = Dedup(found_params)
    /\ pc' = AfterDedup
    /\ UNCHANGED <<config, injection_place, params, requested_max, original_params, target, default_max, max,
                   self_params, stable, diffs, initial_response, probe_response,
                   is_the_body_the_same, compared, custom_parameters, sweep_params,
                   found_parameters, error, log>>

\* a pass that pushes nothing onto an empty `params`: the loop breaks
\* (runner.rs:160-168, :174), then run's append and dedup filter (runner.rs:119-126)
SweepExhausted ==
    /\ InSweep
    /\ ~config.disable_custom_parameters
    /\ RoundParams(CurParams, CurCustom) = <<>>
    /\ custom_parameters' = AfterRound(CurCustom)
    /\ sweep_params' = <<>>
    /\ found_parameters' = CurFound
    /\ found_before_dedup' = found_params \o CurFound
    /\ found_params' = Dedup(found_params \o CurFound)
    /\ pc' = AfterDedup
    /\ UNCHANGED <<config, injection_place, params, requested_max, original_params, target, default_max, max,
                   self_params, stable, diffs, initial_response, probe_response,
                   is_the_body_the_same, compared, error, log>>

\* one round whose check_parameters fails (runner.rs:160-170)
SweepRoundFails ==
    /\ InSweep
    /\ ~config.disable_custom_parameters
    /\ RoundParams(CurParams, CurCustom) # <<>>
    /\ SweepRounds < MaxRounds
    /\ custom_parameters' = AfterRound(CurCustom)
    /\ sweep_params' = RoundParams(CurParams, CurCustom)
    /\ found_parameters' = CurFound
    /\ log' = Append(log, Call("sweep", Len(RoundParams(CurParams, CurCustom)),
                               RoundParams(CurParams, CurCustom), FALSE))
    /\ pc' = "error"
    /\ error' = "transport"
    /\ UNCHANGED <<config, injection_place, params, requested_max, original_params, target, default_max, max,
                   self_params, stable, diffs, initial_response, probe_response,
                   is_the_body_the_same, compared, found_params, found_before_dedup>>

\* one round of the loop (runner.rs:159-171)
SweepRound ==
    /\ InSweep
    /\ ~config.disable_custom_parameters
    /\ RoundParams(CurParams, CurCustom) # <<>>
    /\ SweepRounds < MaxRounds
    /\ custom_parameters' = AfterRound(CurCustom)
    /\ sweep_params' = RoundParams(CurParams, CurCustom)
    /\ found_parameters' = CurFound \o CheckParameters(RoundParams(CurParams, CurCustom))
    /\ log' = Append(log, Call("sweep", Len(RoundParams(CurParams, CurCustom)),
                               RoundParams(CurParams, CurCustom), TRUE))
    /\ pc' = "sweep_loop"
    /\ UNCHANGED <<config, injection_place, params, requested_max, original_params, target, default_max, max,
                   self_params, stable, diffs, initial_response, probe_response,
                   is_the_body_the_same, compared, found_params, found_before_dedup, error>>

\* ------------------------------------------------ verification and replay
\* the sub-lists of fp: what verify may keep
SubLists(fp) ==
    {SelectSeq([i \in 1..Len(fp) |-> <<i, fp[i]>>], LAMBDA p : p[1] \in keep) :
        keep \in SUBSET (1..Len(fp))}
Names(pairs) == [i \in 1..Len(pairs) |-> pairs[i][2]]

\* variant of KeptOnVerifyError: the list is lost with the failed verification
KeptOnVerifyErrorNothing(fp) == <<>>

\* the else branch of the verification: found_params itself (runner.rs:133-136)
KeptOnVerifyError(fp) == fp

\* verification failing: the list is kept (runner.rs:129-137)
VerifyFails ==
    /\ pc = "verify"
    /\ found_params' = KeptOnVerifyError(found_params)
    /\ log' = Append(log, Call("verify", Len(found_params), found_params, FALSE))
    /\ pc' = AfterVerify
    /\ UNCHANGED <<config, injection_place, params, requested_max, original_params, target, default_max, max,
                   self_params, stable, diffs, initial_response, probe_response,
                   is_the_body_the_same, compared, custom_parameters, sweep_params,
                   found_parameters, found_before_dedup, error>>

\* verification (runner.rs:129-137)
Verify ==
    /\ pc = "verify"
    /\ \E filtered_params \in SubLists(found_params) :
        found_params' = Names(filtered_params)
    /\ log' = Append(log, Call("verify", Len(found_params), found_params, TRUE))
    /\ pc' = AfterVerify
    /\ UNCHANGED <<config, injection_place, params, requested_max, original_params, target, default_max, max,
                   self_params, stable, diffs, initial_response, probe_response,
                   is_the_body_the_same, compared, custom_parameters, sweep_params,
                   found_parameters, found_before_dedup, error>>

\* replay, failing or not: run returns Ok (runner.rs:139-145)
Replay ==
    /\ pc = "replay"
    /\ \E ok \in BOOLEAN :
        log' = Append(log, Call("replay", Len(found_params), found_params, ok))
    /\ pc' = "done"
    /\ UNCHANGED <<config, injection_place, params, requested_max, original_params, target, default_max, max,
                   self_params, stable, diffs, initial_response, probe_response,
                   is_the_body_the_same, compared, custom_parameters, sweep_params,
                   found_parameters, found_params, found_before_dedup, error>>

\* ---------------------------------------------------------- specification
Next ==
    \/ NewProbeFails
    \/ New
    \/ EmptyReqsFails
    \/ StabilityChecker
    \/ SizerProbeFails
    \/ TryToIncreaseMax1
    \/ TryToIncreaseMax2
    \/ DiscoveryFails
    \/ Discovery
    \/ SweepDisabled
    \/ SweepExhausted
    \/ SweepRoundFails
    \/ SweepRound
    \/ VerifyFails
    \/ Verify
    \/ Replay

Spec == Init /\ [][Next]_vars

\* ------------------------------------------------------------ properties
RunnerExists == pc \notin {"new", "no_runner"}
ProbeAnswered == log # <<>> /\ log[1].ok
Calls(op) == SelectSeq(log, LAMBDA c : c.op = op)
Range(s) == {s[i] : i \in 1..Len(s)}
LastCall == log[Len(log)]

\* the sizer returned Ok: it compared at least once and is not between rungs,
\* and its last probe did not fail
SizerFailed == pc = "error" /\ LastCall.op = "sizer"
SizerReturned ==
    /\ compared # <<>>
    /\ pc # "try_to_increase_max_2"
    /\ ~SizerFailed
\* max when try_to_increase_max was entered: its first probe carries max + 64
SizerEntryMax == Calls("sizer")[1].size - Rung1
\* the rung condition as the specification words it, from one probe's outcome
RungHolds(outcome) ==
    ~outcome.is_code_different /\ (~stable.body \/ outcome.new_diffs = <<>>)

\* C1: once try_to_increase_max has returned, max is the value at entry, that
\* value + 64 or that value + 128; + 128 exactly when both rungs satisfy
\* "!code_differs && (!stable.body || no new diffs)", + 64 exactly when only
\* the first rung does, and the value at entry exactly when the first does not.
C1_SizerOutcome ==
    SizerReturned =>
        LET ok1 == RungHolds(compared[1])
            ok2 == Len(compared) = 2 /\ RungHolds(compared[2])
        IN  /\ max \in {SizerEntryMax, SizerEntryMax + Rung1, SizerEntryMax + Rung2}
            /\ (max = SizerEntryMax + Rung2) <=> (ok1 /\ ok2)
            /\ (max = SizerEntryMax + Rung1) <=> (ok1 /\ ~ok2)
            /\ (max = SizerEntryMax) <=> ~ok1
            /\ ok1 <=> (Len(compared) = 2)
C1_Witness ==
    /\ SizerReturned
    /\ stable.body
    /\ Len(compared) = 2
    /\ compared[2].new_diffs # <<>>
    /\ max = SizerEntryMax + Rung1

\* C2 (as claimed): in every state of a Runner, max is at most the number of
\* candidate parameters the Runner holds.
C2_MaxWithinCandidates == RunnerExists => max <= Len(self_params)
\* C2 (amended): max is at most the number of candidates until the sizer
\* commits a larger value; after the commit it is at most that number + 128.
C2_MaxWithinCandidatesUntilCommit ==
    RunnerExists =>
        /\ Len(compared) < 2 => max <= Len(self_params)
        /\ max <= Len(self_params) + Rung2
C2_Witness ==
    /\ RunnerExists
    /\ Len(compared) = 2
    /\ max = Len(self_params) + Rung2

\* the longest value list and the number of values of a custom-parameter map
RECURSIVE MaxLenValues(_)
MaxLenValues(cp) ==
    IF cp = <<>> THEN 0
    ELSE LET rest == MaxLenValues(Tail(cp))
         IN  IF Len(Head(cp).v) > rest THEN Len(Head(cp).v) ELSE rest
RECURSIVE SumLenValues(_)
SumLenValues(cp) ==
    IF cp = <<>> THEN 0 ELSE Len(Head(cp).v) + SumLenValues(Tail(cp))
RECURSIVE SumSizes(_)
SumSizes(calls) ==
    IF calls = <<>> THEN 0 ELSE Len(Head(calls).batch) + SumSizes(Tail(calls))
\* no value is listed twice under one name
DistinctValues(cp) ==
    \A e \in Range(cp) : \A i, j \in 1..Len(e.v) : i # j => e.v[i] # e.v[j]
SweepReturned ==
    /\ ~config.disable_custom_parameters
    /\ pc \in {"verify", "replay", "done"}
\* every check_parameters call of the sweep returned Ok so far
SweepCallsOk == \A c \in Range(Calls("sweep")) : c.ok

\* C3: while every check_parameters call returns Ok, the sweep makes at most
\* max over names of len(values) rounds of probing.
C3_SweepRoundsBounded ==
    SweepCallsOk => SweepRounds <= MaxLenValues(config.custom_parameters)

\* C4: over the whole sweep every (name, value) pair is submitted exactly
\* once: no "name=value" string is in the batch of two rounds, and the
\* strings submitted number the sum of the value-list lengths.
C4_EachPairOnce ==
    (SweepCallsOk /\ DistinctValues(config.custom_parameters)) =>
        LET rounds == Calls("sweep")
        IN  /\ \A i, j \in 1..Len(rounds) :
                i < j => Range(rounds[i].batch) \cap Range(rounds[j].batch) = {}
            /\ SumSizes(rounds) <= SumLenValues(config.custom_parameters)
            /\ SweepReturned => SumSizes(rounds) = SumLenValues(config.custom_parameters)

\* C5: the batch of round r is one "name=value" string for each name with
\* at least r values, that value being the r-th of the name's list, and
\* nothing else.
C5_RoundComposition ==
    LET rounds == Calls("sweep")
        deep(r) == {e \in Range(config.custom_parameters) : Len(e.v) >= r}
    IN  SweepCallsOk => \A r \in 1..Len(rounds) :
            /\ Range(rounds[r].batch) = {Concat(e.k, e.v[r]) : e \in deep(r)}
            /\ Len(rounds[r].batch) = Cardinality(deep(r))

\* C6: once new has returned with the probe answered, n being the length of
\* the merged list: if n < |default_max| then new failed when n = 0 and
\* otherwise the Runner has max = n and default_max = n; if n >= |default_max|
\* the Runner has max = |default_max| and default_max as requested.
C6_Construction ==
    LET n == Len(params)
    IN  /\ (pc = "no_runner" /\ ProbeAnswered) => (n = 0 /\ n < Abs(requested_max))
        /\ pc = "constructed" =>
            IF n < Abs(requested_max)
            THEN n > 0 /\ max = n /\ default_max = n
            ELSE max = Abs(requested_max) /\ default_max = requested_max
C6_Witness ==
    /\ pc = "constructed"
    /\ requested_max = -Sentinel
    /\ Len(params) = 2
    /\ max = 2
    /\ default_max = 2

\* C7: whenever the candidate list is empty after the merge, new fails with
\* "No parameters were provided.", whatever default_max is.
C7_EmptyListAlwaysFatal ==
    (pc # "new" /\ ProbeAnswered /\ Len(params) = 0) =>
        (pc = "no_runner" /\ error = "No parameters were provided.")

\* the stability check is over, or has reached the sizer
SizerInvoked == pc = "try_to_increase_max" \/ Calls("sizer") # <<>>
StabilityCheckLeft == pc \notin {"new", "no_runner", "constructed"}
StillSentinel == requested_max = -Sentinel /\ Len(self_params) >= Sentinel
GatePassed ==
    /\ Calls("empty_reqs") # <<>>
    /\ Calls("empty_reqs")[1].ok
    /\ ~(config.reflected_only /\ ~stable.reflections)
\* the smaller of two numbers
Least(a, b) == IF a < b THEN a ELSE b

\* C8 (as claimed): the sizer is invoked during the stability check if and
\* only if the caller requested -128 and at least 128 candidates exist.
C8_SizerIffSentinel == StabilityCheckLeft => (SizerInvoked <=> StillSentinel)
\* C8 (amended): the sizer is invoked if and only if the caller requested
\* -128, at least 128 candidates exist, empty_reqs returned Ok and the
\* reflected_only gate did not fail; with -128 and fewer than 128 candidates
\* max = default_max = candidate count and the sizer is never invoked; with
\* any other request the sizer is never invoked and max stays as constructed.
C8_SizerIffSentinelAndGatePassed ==
    StabilityCheckLeft =>
        /\ SizerInvoked <=> (StillSentinel /\ GatePassed)
        /\ (requested_max = -Sentinel /\ Len(self_params) < Sentinel) =>
            (max = Len(self_params) /\ default_max = Len(self_params) /\ ~SizerInvoked)
        /\ requested_max # -Sentinel =>
            (~SizerInvoked /\ max = Least(Abs(requested_max), Len(self_params)))
C8_Witness ==
    /\ pc = "check_parameters"
    /\ StillSentinel
    /\ Len(Calls("sizer")) = 2

\* C9: when reflected_only is set and empty_reqs learned that reflections are
\* not stable, the run has failed with the last call made being empty_reqs:
\* no sizing probe, no check_parameters, no sweep round, no verify, no replay.
GateCase ==
    /\ config.reflected_only
    /\ Calls("empty_reqs") # <<>>
    /\ Calls("empty_reqs")[1].ok
    /\ ~stable.reflections
C9_StabilityGate ==
    GateCase =>
        /\ pc = "error"
        /\ error = "Reflections are not stable"
        /\ LastCall.op = "empty_reqs"
        /\ \A c \in Range(log) : c.op \in {"probe", "empty_reqs"}
C9_Witness ==
    /\ GateCase
    /\ StillSentinel
    /\ pc = "error"

\* the dedup filter has run and verification has not yet replaced its result
DedupJustDone ==
    /\ pc \in {"verify", "replay", "done"}
    /\ \A c \in Range(Calls("verify")) : ~c.ok
\* bare keys and values of the names tried
BareKeys == {Str_d, Str_a}
NameValues == {Str_1, Str_t, Str_eq}

\* C10: after the dedup filter, for a bare key X and a value v: if X and
\* "X=v" were both found, the filtered list has X and not "X=v"; if "X=v" was
\* found and X was not, the filtered list has "X=v".
C10_DedupLaw ==
    DedupJustDone =>
        \A X \in BareKeys, v \in NameValues :
            LET Xv == Concat(X, v)
            IN  /\ (Contains(found_before_dedup, X) /\ Contains(found_before_dedup, Xv)) =>
                    (Contains(found_params, X) /\ ~Contains(found_params, Xv))
                /\ (Contains(found_before_dedup, Xv) /\ ~Contains(found_before_dedup, X)) =>
                    Contains(found_params, Xv)
C10_Witness ==
    /\ DedupJustDone
    /\ Contains(found_before_dedup, Str_d)
    /\ Contains(found_before_dedup, Concat(Str_d, Str_1))
    /\ Contains(found_before_dedup, Concat(Str_a, Str_1))
    /\ ~Contains(found_before_dedup, Str_a)

\* the run got past the dedup filter
PastDedup == pc \in {"verify", "replay", "done"}
VerifyFailed == Calls("verify") # <<>> /\ ~Calls("verify")[1].ok

\* C11: with config.verify set and the verifier returning an error, the list
\* carried on, and handed to replay, is the dedup-filtered list, same names in
\* the same order; with config.verify not set the verifier is never called
\* and the list carried on is the dedup-filtered list as well.
C11_VerifyErrorKeepsList ==
    /\ (config.verify /\ VerifyFailed) =>
        /\ found_params = Dedup(found_before_dedup)
        /\ \A c \in Range(Calls("replay")) : c.batch = Dedup(found_before_dedup)
    /\ ~config.verify =>
        /\ Calls("verify") = <<>>
        /\ PastDedup => found_params = Dedup(found_before_dedup)
        /\ \A c \in Range(Calls("replay")) : c.batch = Dedup(found_before_dedup)
C11_Witness ==
    /\ config.verify
    /\ VerifyFailed
    /\ Len(found_before_dedup) > Len(found_params)
    /\ Len(found_params) >= 2
    /\ Calls("replay") # <<>>

\* C12: once the stability check, the discovery pass and the sweep have
\* succeeded the run never fails: a failed verification or replay leaves no
\* error, a failed verification is followed by the replay when replay_proxy
\* is not empty, and when run has returned, replay was called exactly when
\* replay_proxy is not empty.
C12_DegradedErrorsKeepResult ==
    /\ PastDedup => error = ""
    /\ (Calls("verify") # <<>> \/ Calls("replay") # <<>>) => PastDedup
    /\ pc = "replay" => config.replay_proxy # <<>>
    /\ (VerifyFailed /\ config.replay_proxy # <<>>) =>
        (pc = "replay" \/ Calls("replay") # <<>>)
    /\ pc = "done" => (Calls("replay") # <<>> <=> config.replay_proxy # <<>>)
C12_Witness ==
    /\ pc = "done"
    /\ error = ""
    /\ VerifyFailed
    /\ Calls("replay") # <<>>
    /\ ~Calls("replay")[1].ok

\* the calls whose error is fatal to the run
FatalOps == {"probe", "empty_reqs", "sizer", "check_parameters", "sweep"}
Aborted == pc \in {"error", "no_runner"}

\* C13: a failed probe, empty_reqs, sizing probe, check_parameters or sweep
\* round is the last call made: the run (or new) has returned its error,
\* the call is not made again and no later stage runs.
C13_FatalErrorsAbort ==
    /\ \A i \in 1..Len(log) :
        (log[i].op \in FatalOps /\ ~log[i].ok) =>
            (i = Len(log) /\ Aborted /\ error = "transport")
    /\ Aborted =>
        /\ error # ""
        /\ LastCall.op \in FatalOps
        /\ Calls("verify") = <<>>
        /\ Calls("replay") = <<>>
C13_Witness ==
    /\ pc = "error"
    /\ Len(Calls("sweep")) = 2
    /\ ~LastCall.ok
    /\ LastCall.op = "sweep"

\* C14: the baseline is what the one initial probe returned, field by field,
\* without the link to its request, in every state of the Runner.
C14_BaselineImmutable ==
    RunnerExists =>
        /\ Len(Calls("probe")) = 1
        /\ probe_response.request = "Some"
        /\ probe_response.text = target.body_names
        /\ initial_response.time = probe_response.time
        /\ initial_response.code = probe_response.code
        /\ initial_response.headers = probe_response.headers
        /\ initial_response.text = probe_response.text
        /\ initial_response.reflected_parameters = probe_response.reflected_parameters
        /\ initial_response.additional_parameter = probe_response.additional_parameter
        /\ initial_response.request = "None"
C14_Witness ==
    /\ pc = "done"
    /\ Len(compared) = 2
    /\ Calls("verify") # <<>>
    /\ Calls("replay") # <<>>
    /\ initial_response.text # <<>>

\* the place of a call in the pipeline
Rank(op) ==
    CASE op = "probe" -> 1
      [] op = "empty_reqs" -> 2
      [] op = "sizer" -> 3
      [] op = "check_parameters" -> 4
      [] op = "sweep" -> 5
      [] op = "verify" -> 6
      [] op = "replay" -> 7

\* C15: the calls are made in the order probe, empty_reqs, sizing probes,
\* check_parameters, sweep rounds, verify, replay; a call follows only calls
\* that returned, the fatal ones with Ok; the verifier is given the
\* dedup-filtered list; and when a sizing probe or check_parameters is
\* called, diffs and stable are what empty_reqs learned.
C15_StageOrder ==
    /\ \A i, j \in 1..Len(log) : i < j => Rank(log[i].op) <= Rank(log[j].op)
    /\ \A i \in 1..Len(log) : (i < Len(log) /\ log[i].op \in FatalOps) => log[i].ok
    /\ \A op \in {"probe", "empty_reqs", "check_parameters", "verify", "replay"} :
        Len(Calls(op)) <= 1
    /\ Len(Calls("sizer")) <= 2
    /\ Len(log) > 0 => log[1].op = "probe"
    /\ \A i \in 1..Len(log) : Rank(log[i].op) >= 3 =>
        /\ Calls("empty_reqs") # <<>>
        /\ diffs = target.diffs
        /\ stable = target.stable
    /\ \A i \in 1..Len(log) : Rank(log[i].op) >= 5 => Calls("check_parameters") # <<>>
    /\ PastDedup => Calls("check_parameters") # <<>>
    /\ \A c \in Range(Calls("verify")) : c.batch = Dedup(found_before_dedup)
C15_Witness ==
    /\ pc = "done"
    /\ Len(log) = 7
    /\ Len(Calls("sizer")) = 2
    /\ stable.body

\* max as new leaves it
ConstructedMax == Least(Abs(requested_max), Len(self_params))

\* C16: the sizer makes at most two probes; the first carries the entry
\* max + 64 parameters, the second the entry max + 128 and is made only
\* after a first rung that satisfies the rung condition; after a first rung
\* that does not, the sizer has returned with one probe made.
C16_SizerProbes ==
    LET probes == Calls("sizer")
    IN  /\ Len(probes) <= 2
        /\ Len(probes) >= 1 => probes[1].size = ConstructedMax + Rung1
        /\ Len(probes) = 2 =>
            /\ probes[2].size = ConstructedMax + Rung2
            /\ compared # <<>>
            /\ RungHolds(compared[1])
        /\ (compared # <<>> /\ ~RungHolds(compared[1])) =>
            (Len(probes) = 1 /\ pc # "try_to_increase_max_2")
        /\ (compared # <<>> /\ RungHolds(compared[1])) =>
            (pc = "try_to_increase_max_2" \/ Len(probes) = 2)
C16_Witness ==
    /\ Len(Calls("sizer")) = 2
    /\ Calls("sizer")[1].size = 192
    /\ Calls("sizer")[2].size = 256
    /\ Len(compared) = 2

\* C17: after the second rung the committed max is the entry max + 128 when
\* the second probe alone satisfies "!code_differs && (!stable.body || no new
\* diffs)" and the entry max + 64 otherwise, whatever the first probe's diffs.
C17_SecondRungDecision ==
    Len(compared) = 2 =>
        max = ConstructedMax + (IF RungHolds(compared[2]) THEN Rung2 ELSE Rung1)
C17_Witness ==
    /\ Len(compared) = 2
    /\ ~stable.body
    /\ compared[1].new_diffs # <<>>
    /\ compared[2].new_diffs = <<>>
    /\ max = ConstructedMax + Rung2

\* C18: in every state of the Runner max = |default_max|; once the sizer has
\* returned, default_max is the new max when the sizer changed max and is
\* still -128 when it did not.
C18_MaxDefaultMaxConsistent ==
    RunnerExists =>
        /\ max = Abs(default_max)
        /\ SizerReturned =>
            IF max # ConstructedMax
            THEN default_max = max /\ default_max > 0
            ELSE default_max = -Sentinel
C18_Witness ==
    /\ SizerReturned
    /\ max = 192
    /\ default_max = 192

\* C19: when a sizing probe fails, max and default_max are what they were
\* when the sizer was entered, also after a first rung that was safe.
C19_NoPartialCommit ==
    SizerFailed =>
        /\ max = ConstructedMax
        /\ default_max = requested_max
        /\ error \in {"transport", "compare"}
C19_Witness ==
    /\ SizerFailed
    /\ Len(compared) = 1
    /\ RungHolds(compared[1])
    /\ Len(Calls("sizer")) = 2

\* C20: once new has got the probe's answer, the caller's list is the list
\* it passed followed by inferred names that were not in it, each once, and
\* every such name is there; with the Headers injection place the list is
\* the list it passed.
C20_MergeAdditive ==
    (pc # "new" /\ ProbeAnswered) =>
        LET n0 == Len(original_params)
            added == SubSeq(params, n0 + 1, Len(params))
        IN  /\ Len(params) >= n0
            /\ SubSeq(params, 1, n0) = original_params
            /\ \A i \in 1..Len(added) :
                /\ added[i] \in Range(target.body_names)
                /\ added[i] \notin Range(original_params)
                /\ \A j \in 1..Len(added) : i # j => added[i] # added[j]
            /\ injection_place # "Headers" =>
                \A x \in Range(target.body_names) : x \in Range(params)
            /\ injection_place = "Headers" => params = original_params
            /\ RunnerExists => self_params = params
C20_Witness ==
    /\ pc = "constructed"
    /\ injection_place = "Body"
    /\ Len(original_params) = 2
    /\ target.body_names = <<Str_d, Str_d>>
    /\ Len(params) = 3

====
